---------------------------- MODULE Spec2Model ----------------------------
(***************************************************************************)
(* State-synchronisation layer of the geff Tauri frontend:                 *)
(*   - the redux store (commandline, goal, display, activity slices),      *)
(*   - the thunks of Event.ts (keyboardEvent, loadCommand, fetchState,     *)
(*     cursorAction, invokeSetActiveActivity, invokeAppCommand, all but    *)
(*     loadCommand wrapped by wrapErrorHandler),                           *)
(*   - the backend gateway (external), as the requests in flight.          *)
(* JavaScript is single-threaded and run-to-completion: a thunk runs       *)
(* synchronously up to its await of invoke(...), and its continuation runs *)
(* when the backend's response is delivered.  One action is one such run.  *)
(***************************************************************************)
EXTENDS Integers, Sequences, FiniteSets, Bags, TLC

\* ------------------------------------------------------------------ bounds
\* Number of key events of a run.
MaxKeys == 2
\* A key event is taken while fewer than this many invocations are in flight.
MaxInFlight == 2
\* Number of invocations of a run that the backend rejects or answers with
\* an absent result.
MaxFaults == 1
\* Number of key events of a run of the commandline reducer alone.
MaxTyped == 3

\* ------------------------------------------------------------- input sets
\* event.key values: the keys the reducer and the dispatcher distinguish,
\* and one printable character ("x") that neither of them names.
Keys == {":", "Escape", "Enter", "Backspace", "Delete", "h", "j", "k", "l", "q", "x"}

\* Error values a rejected invoke(...) carries (a Tauri command's Err(String)).
ErrorValues == {"unknown command"}

\* ------------------------------------------------------------ JS values
\* JavaScript's undefined, where a string is expected.  No JSON text and no
\* commandline content equals it: JSON.stringify of a string starts with a
\* double quote, Typing content with ":".
Undefined == "undefined"

\* JSON.stringify(e) for a string e without characters to escape.
JSONStringify(e) == "\"" \o e \o "\""

\* ------------------------------------------------------------ Store: slices
CommandlineEmpty == [type |-> "empty"]
CommandlineTyping(content) == [type |-> "typing", content |-> content]
CommandlineError(error) == [type |-> "error", error |-> error]

\* As handleKeyPressEvent, without the branch that leaves Typing when
\* Backspace or Delete meets a content of one character.
handleKeyPressEventKeepingMarker(store, key) ==
  IF store.type = "empty" \/ store.type = "error"
  THEN IF key = ":" THEN CommandlineTyping(":")
       ELSE IF key = "Escape" THEN CommandlineEmpty
       ELSE store
  ELSE IF key = "Escape" THEN CommandlineEmpty
       ELSE IF key = "Backspace" \/ key = "Delete"
       THEN IF Len(store.content) > 1
            THEN CommandlineTyping(SubSeq(store.content, 1, Len(store.content) - 1))
            ELSE store
       ELSE IF key = "Enter" THEN CommandlineEmpty
       ELSE CommandlineTyping(store.content \o key)

\* As handleKeyPressEvent, with Backspace and Delete cutting the last
\* character of any content that has one, the ":" included.
handleKeyPressEventErasingMarker(store, key) ==
  IF store.type = "empty" \/ store.type = "error"
  THEN IF key = ":" THEN CommandlineTyping(":")
       ELSE IF key = "Escape" THEN CommandlineEmpty
       ELSE store
  ELSE IF key = "Escape" THEN CommandlineEmpty
       ELSE IF key = "Backspace" \/ key = "Delete"
       THEN IF Len(store.content) >= 1
            THEN CommandlineTyping(SubSeq(store.content, 1, Len(store.content) - 1))
            ELSE CommandlineEmpty
       ELSE IF key = "Enter" THEN CommandlineEmpty
       ELSE CommandlineTyping(store.content \o key)

\* As handleKeyPressEvent, with an error dismissed by whatever key comes
\* next.
handleKeyPressEventDismissingError(store, key) ==
  IF store.type = "empty" \/ store.type = "error"
  THEN IF key = ":" THEN CommandlineTyping(":")
       ELSE CommandlineEmpty
  ELSE IF key = "Escape" THEN CommandlineEmpty
       ELSE IF key = "Backspace" \/ key = "Delete"
       THEN IF Len(store.content) > 1
            THEN CommandlineTyping(SubSeq(store.content, 1, Len(store.content) - 1))
            ELSE IF Len(store.content) = 1 THEN CommandlineEmpty
            ELSE store
       ELSE IF key = "Enter" THEN CommandlineEmpty
       ELSE CommandlineTyping(store.content \o key)

\* commandlineSlice.reducers.handleKeyPressEvent
handleKeyPressEvent(store, key) ==
  IF store.type = "empty" \/ store.type = "error"
  THEN IF key = ":" THEN CommandlineTyping(":")
       ELSE IF key = "Escape" THEN CommandlineEmpty
       ELSE store
  ELSE IF key = "Escape" THEN CommandlineEmpty
       ELSE IF key = "Backspace" \/ key = "Delete"
       THEN IF Len(store.content) > 1
            THEN CommandlineTyping(SubSeq(store.content, 1, Len(store.content) - 1))
            ELSE IF Len(store.content) = 1 THEN CommandlineEmpty
            ELSE store
       ELSE IF key = "Enter" THEN CommandlineEmpty
       ELSE CommandlineTyping(store.content \o key)

\* commandlineSlice.reducers.displayError: const { error } = action.payload.
\* The payload is a JavaScript value: an object with an error property, or a
\* bare string, whose error property is undefined.
PayloadObject(error) == [isObject |-> TRUE, error |-> error]
PayloadString(s) == [isObject |-> FALSE, error |-> s]
displayError(payload) ==
  CommandlineError(IF payload.isObject THEN payload.error ELSE Undefined)

\* As formatCommandline, with the ":" prepended to the content.
formatCommandlinePrefixing(store) ==
  IF store.type = "empty" THEN ""
  ELSE IF store.type = "typing" THEN ":" \o store.content \o "|"
  ELSE store.error

\* formatCommandline
formatCommandline(store) ==
  IF store.type = "empty" THEN ""
  ELSE IF store.type = "typing" THEN store.content \o "|"
  ELSE store.error

\* GoalStateLoaded.selectedGoalId is optional: the value of the property
\* when no goal is selected. Goal ids are positive.
NoGoal == 0

\* goalSlice: initial state and the load reducer (state.state = {...payload})
GoalStateUnloaded == [type |-> "unloaded"]
load(payload) ==
  [type |-> "loaded",
   populatedGoals |-> payload.populatedGoals,
   selectedGoalId |-> payload.selectedGoalId,
   focusedGoals |-> payload.focusedGoals]

\* displaySlice: initial state and the update reducer
InitialDisplay ==
  [commandline |-> [fontSizePixels |-> 14, backgroundColor |-> "gray", fontColor |-> "black"]]
update(payload) == payload

\* activitySlice: initial state and the setActiveActivity reducer
InitialActivity == "Goals"
setActiveActivity(payload) == payload


\* The four slices of the root reducer, as one record.
RootState(c, g, d, a) == [commandline |-> c, goal |-> g, display |-> d, activity |-> a]

\* --------------------------------------------------------- Backend Gateway
\* The backend is external: its state is the FrontendState that fetch
\* returns, its operations are those the frontend invokes.
Display(bg) ==
  [commandline |-> [fontSizePixels |-> 14, backgroundColor |-> bg, fontColor |-> "black"]]

FrontendState(sel, foc, bg, act) ==
  [goalState |-> [populatedGoals |-> <<1, 2>>,
                  selectedGoalId |-> sel,
                  focusedGoals |-> foc,
                  config |-> [display |-> Display(bg)]],
   activeActivity |-> act]

\* What the backend may hold when the frontend starts.
BackendInit == {FrontendState(1, {}, "navy", act) : act \in {"Goals", "Help"}}

\* cursor_action on the backend
BackendCursor(b, action) ==
  LET gs == b.goalState
      n == Len(gs.populatedGoals)
  IN CASE n = 0 -> b
       [] n > 0 /\ action = "down" ->
            [b EXCEPT !.goalState.selectedGoalId = IF gs.selectedGoalId < n THEN gs.selectedGoalId + 1 ELSE n]
       [] n > 0 /\ action = "up" ->
            [b EXCEPT !.goalState.selectedGoalId = IF gs.selectedGoalId > 1 THEN gs.selectedGoalId - 1 ELSE 1]
       [] n > 0 /\ action = "in" -> [b EXCEPT !.goalState.focusedGoals = {gs.selectedGoalId}]
       [] n > 0 /\ action = "out" -> [b EXCEPT !.goalState.focusedGoals = {}]

\* app_command on the backend: what a command does is the backend's business;
\* it may leave the state, open the help activity, change the display or
\* delete the goals, which leaves no goal selected or focused.
AppEffects == {"none", "help", "theme", "clear"}
BackendCommand(b, effect) ==
  CASE effect = "none" -> b
    [] effect = "help" -> [b EXCEPT !.activeActivity = "Help"]
    [] effect = "theme" -> [b EXCEPT !.goalState.config.display = Display("teal")]
    [] effect = "clear" -> [b EXCEPT !.goalState.populatedGoals = <<>>,
                                     !.goalState.selectedGoalId = NoGoal,
                                     !.goalState.focusedGoals = {}]

\* set_active_activity on the backend
BackendSetActivity(b, newActiveActivity) == [b EXCEPT !.activeActivity = newActiveActivity]

\* Results of an invoke(...): still pending, resolved with a value, rejected.
Pending == [kind |-> "pending"]
Unit == [kind |-> "unit"]
Null == [kind |-> "null"]
Fetched(fs) == [kind |-> "state", state |-> fs]
Rejected(e) == [kind |-> "error", e |-> e]

\* The responses the backend can give to a request, each with the backend
\* state it leaves.  A rejected operation leaves the state as it was.
Responses(b, op, arg) ==
  {[res |-> Rejected(e), backend |-> b] : e \in ErrorValues}
  \cup
  CASE op = "load" -> {[res |-> Unit, backend |-> b]}
    [] op = "fetch" -> {[res |-> Fetched(b), backend |-> b], [res |-> Null, backend |-> b]}
    [] op = "app_command" ->
         {[res |-> Unit, backend |-> BackendCommand(b, eff)] : eff \in AppEffects}
    [] op = "cursor_action" -> {[res |-> Unit, backend |-> BackendCursor(b, arg)]}
    [] op = "set_active_activity" -> {[res |-> Unit, backend |-> BackendSetActivity(b, arg)]}

\* ------------------------------------------------------------- Event.ts
\* What one synchronous run of a thunk leaves: the store, the backend
\* operations it invoked (in order), and whether it threw.
Ran(S, invoked) == [store |-> S, invoked |-> invoked, thrown |-> FALSE, e |-> ""]
Threw(S, e) == [store |-> S, invoked |-> <<>>, thrown |-> TRUE, e |-> e]
Invoke(op, arg) == [op |-> op, arg |-> arg]

\* As fetchStateThunk, with the snapshot's goals added to the cached ones.
fetchStateThunkAccumulating(S, res) ==
  IF res.kind = "error" THEN Threw(S, res.e)
  ELSE IF res.kind = "state"
  THEN Ran([S EXCEPT !.goal =
                       IF S.goal.type = "loaded"
                       THEN [load(res.state.goalState) EXCEPT
                               !.populatedGoals = S.goal.populatedGoals \o @]
                       ELSE load(res.state.goalState),
                     !.display = update(res.state.goalState.config.display),
                     !.activity = setActiveActivity(res.state.activeActivity)], <<>>)
  ELSE Ran(S, <<>>)

\* As fetchStateThunk, with the cached selectedGoalId kept when the
\* snapshot has none.
fetchStateThunkKeepingSelection(S, res) ==
  IF res.kind = "error" THEN Threw(S, res.e)
  ELSE IF res.kind = "state"
  THEN Ran([S EXCEPT !.goal =
                       IF S.goal.type = "loaded"
                          /\ res.state.goalState.selectedGoalId = NoGoal
                       THEN [load(res.state.goalState) EXCEPT
                               !.selectedGoalId = S.goal.selectedGoalId]
                       ELSE load(res.state.goalState),
                     !.display = update(res.state.goalState.config.display),
                     !.activity = setActiveActivity(res.state.activeActivity)], <<>>)
  ELSE Ran(S, <<>>)

\* As fetchStateThunk, without the test for a null result: reading
\* frontendState.goalState throws a TypeError.
fetchStateThunkDereferencingNull(S, res) ==
  IF res.kind = "error" THEN Threw(S, res.e)
  ELSE IF res.kind = "state"
  THEN Ran([S EXCEPT !.goal = load(res.state.goalState),
                     !.display = update(res.state.goalState.config.display),
                     !.activity = setActiveActivity(res.state.activeActivity)], <<>>)
  ELSE Threw(S, "TypeError")

\* As fetchStateThunk, without the dispatch of setActiveActivity.
fetchStateThunkWithoutActivity(S, res) ==
  IF res.kind = "error" THEN Threw(S, res.e)
  ELSE IF res.kind = "state"
  THEN Ran([S EXCEPT !.goal = load(res.state.goalState),
                     !.display = update(res.state.goalState.config.display)], <<>>)
  ELSE Ran(S, <<>>)

\* fetchStateThunk, after its await: three dispatches when the result is not null
fetchStateThunk(S, res) ==
  IF res.kind = "error" THEN Threw(S, res.e)
  ELSE IF res.kind = "state"
  THEN Ran([S EXCEPT !.goal = load(res.state.goalState),
                     !.display = update(res.state.goalState.config.display),
                     !.activity = setActiveActivity(res.state.activeActivity)], <<>>)
  ELSE Ran(S, <<>>)

\* cursorActionThunk, after its await: dispatch(fetchState())
cursorActionThunk(S, res) ==
  IF res.kind = "error" THEN Threw(S, res.e)
  ELSE Ran(S, <<Invoke("fetch", "")>>)

\* invokeSetActiveActivityThunk, after its await
invokeSetActiveActivityThunk(S, res) ==
  IF res.kind = "error" THEN Threw(S, res.e) ELSE Ran(S, <<>>)

\* invokeAppCommandThunk, after its await
invokeAppCommandThunk(S, res) ==
  IF res.kind = "error" THEN Threw(S, res.e) ELSE Ran(S, <<>>)

\* As wrapErrorHandler, with fetchState() dispatched after every rejection,
\* whatever the option says.
wrapErrorHandlerRetrying(target, fetchStateAfter) ==
  IF target.thrown
  THEN Ran([target.store EXCEPT
              !.commandline = displayError(PayloadObject(JSONStringify(target.e)))],
           <<Invoke("fetch", "")>>)
  ELSE IF fetchStateAfter
  THEN Ran(target.store, target.invoked \o <<Invoke("fetch", "")>>)
  ELSE Ran(target.store, target.invoked)

\* As wrapErrorHandler, with the refresh dispatched after a rejection too.
wrapErrorHandlerAlwaysFetching(target, fetchStateAfter) ==
  IF target.thrown
  THEN Ran([target.store EXCEPT
              !.commandline = displayError(PayloadObject(JSONStringify(target.e)))],
           IF fetchStateAfter THEN <<Invoke("fetch", "")>> ELSE <<>>)
  ELSE IF fetchStateAfter
  THEN Ran(target.store, target.invoked \o <<Invoke("fetch", "")>>)
  ELSE Ran(target.store, target.invoked)

\* As wrapErrorHandler, with the fetchStateAfter option defaulting to false.
wrapErrorHandlerNeverFetching(target, fetchStateAfter) ==
  IF target.thrown
  THEN Ran([target.store EXCEPT
              !.commandline = displayError(PayloadObject(JSONStringify(target.e)))], <<>>)
  ELSE Ran(target.store, target.invoked)

\* wrapErrorHandler, after its await of target(dispatch): a rejection is
\* displayed, a success is followed by fetchState() unless the option says not.
wrapErrorHandler(target, fetchStateAfter) ==
  IF target.thrown
  THEN Ran([target.store EXCEPT
              !.commandline = displayError(PayloadObject(JSONStringify(target.e)))], <<>>)
  ELSE IF fetchStateAfter
  THEN Ran(target.store, target.invoked \o <<Invoke("fetch", "")>>)
  ELSE Ran(target.store, target.invoked)

\* As loadCommandThunk, with fetchState() dispatched only when load
\* succeeded.
loadCommandThunkFetchingOnSuccess(S, res) ==
  IF res.kind = "error"
  THEN Ran([S EXCEPT !.commandline = displayError(PayloadString(res.e))], <<>>)
  ELSE Ran(S, <<Invoke("fetch", "")>>)

\* loadCommandThunk, after its await: displayError(error) gets the raw error
\* value, then fetchState() is dispatched whatever happened.
loadCommandThunk(S, res) ==
  IF res.kind = "error"
  THEN Ran([S EXCEPT !.commandline = displayError(PayloadString(res.e))],
           <<Invoke("fetch", "")>>)
  ELSE Ran(S, <<Invoke("fetch", "")>>)

\* The continuation of the thunk that invoked op, run on the result res.
Continuation(S, op, res) ==
  CASE op = "load" -> loadCommandThunk(S, res)
    [] op = "fetch" -> wrapErrorHandler(fetchStateThunk(S, res), FALSE)
    [] op = "cursor_action" -> wrapErrorHandler(cursorActionThunk(S, res), TRUE)
    [] op = "set_active_activity" -> wrapErrorHandler(invokeSetActiveActivityThunk(S, res), TRUE)
    [] op = "app_command" -> wrapErrorHandler(invokeAppCommandThunk(S, res), TRUE)

\* As SubmitsCommand, testing the state the reducer leaves instead of the
\* state read before the key was dispatched to it.
SubmitsCommandAfterTransition(commandlineState, key) ==
  key = "Enter" /\ handleKeyPressEvent(commandlineState, key).type = "typing"

\* keyboardEventThunk: Enter while typing
SubmitsCommand(commandlineState, key) ==
  key = "Enter" /\ commandlineState.type = "typing"

\* keyboardEventThunk: the argument handed to invokeAppCommand
CommandArgument(commandlineState) == commandlineState.content

\* As NavigationInvokes, with q leaving whatever activity is active.
NavigationInvokesIgnoringActivity(key, activeActivity) ==
  CASE key = "q" ->
         <<Invoke("set_active_activity", "Goals"), Invoke("cursor_action", "out")>>
    [] key = "h" -> <<Invoke("cursor_action", "out")>>
    [] key = "j" -> <<Invoke("cursor_action", "down")>>
    [] key = "k" -> <<Invoke("cursor_action", "up")>>
    [] key = "l" -> <<Invoke("cursor_action", "in")>>
    [] OTHER -> <<>>

\* keyboardEventThunk: the switch on event.key.  Case "q" has no break and
\* falls through to case "h".
NavigationInvokes(key, activeActivity) ==
  CASE key = "q" ->
         (IF activeActivity = "Help" THEN <<Invoke("set_active_activity", "Goals")>> ELSE <<>>)
         \o <<Invoke("cursor_action", "out")>>
    [] key = "h" -> <<Invoke("cursor_action", "out")>>
    [] key = "j" -> <<Invoke("cursor_action", "down")>>
    [] key = "k" -> <<Invoke("cursor_action", "up")>>
    [] key = "l" -> <<Invoke("cursor_action", "in")>>
    [] OTHER -> <<>>

\* As keyboardEventThunk, with q in the Help activity also dispatching
\* setActiveActivity("Goals") to the store.
keyboardEventThunkSettingActivity(S, key) ==
  LET commandlineState == S.commandline
      submitted == IF SubmitsCommand(commandlineState, key)
                   THEN <<Invoke("app_command", CommandArgument(commandlineState))>>
                   ELSE <<>>
      S1 == [S EXCEPT !.commandline = handleKeyPressEvent(S.commandline, key)]
      navigation == IF commandlineState.type # "typing"
                    THEN NavigationInvokes(key, S1.activity)
                    ELSE <<>>
      S2 == IF commandlineState.type # "typing" /\ key = "q" /\ S1.activity = "Help"
            THEN [S1 EXCEPT !.activity = setActiveActivity("Goals")]
            ELSE S1
  IN Ran(S2, submitted \o navigation)

\* As keyboardEventThunk, with the switch on event.key entered whatever the
\* commandline state is.
keyboardEventThunkNavigatingAlways(S, key) ==
  LET commandlineState == S.commandline
      submitted == IF SubmitsCommand(commandlineState, key)
                   THEN <<Invoke("app_command", CommandArgument(commandlineState))>>
                   ELSE <<>>
      S1 == [S EXCEPT !.commandline = handleKeyPressEvent(S.commandline, key)]
  IN Ran(S1, submitted \o NavigationInvokes(key, S1.activity))

\* keyboardEventThunk: it has no await, so it runs in one piece.
keyboardEventThunk(S, key) ==
  LET commandlineState == S.commandline
      submitted == IF SubmitsCommand(commandlineState, key)
                   THEN <<Invoke("app_command", CommandArgument(commandlineState))>>
                   ELSE <<>>
      S1 == [S EXCEPT !.commandline = handleKeyPressEvent(S.commandline, key)]
      navigation == IF commandlineState.type # "typing"
                    THEN NavigationInvokes(key, S1.activity)
                    ELSE <<>>
  IN Ran(S1, submitted \o navigation)

\* ------------------------------------------------------------------ state
VARIABLES
  commandline,   \* store.commandline.state
  goal,          \* store.goal.state
  display,       \* store.display.state
  activity,      \* store.activity.activeActivity
  backend,       \* the backend's authoritative state
  inflight,      \* the invoke(...) calls whose thunk has not finished (a bag)
  started,       \* App has mounted: loadCommand dispatched, key listener added
  keyCount,      \* key events received
  script,        \* key events still to come, when the run types a fixed text
  hist           \* what has happened so far (counters the properties read)

vars == <<commandline, goal, display, activity, backend, inflight, started, keyCount,
          script, hist>>

Store == RootState(commandline, goal, display, activity)

\* A request in flight: the operation and its argument, how far it has got
\* ("pending": the backend has not answered; "responded": the answer is on
\* its way to the awaiting thunk), and the result.
Request(inv) == [op |-> inv.op, arg |-> inv.arg, st |-> "pending", res |-> Pending]

RECURSIVE Requests(_)
Requests(invoked) ==
  IF invoked = <<>> THEN EmptyBag
  ELSE SetToBag({Request(Head(invoked))}) (+) Requests(Tail(invoked))

\* Number of invocations of op among invoked.
RECURSIVE Count(_, _)
Count(invoked, op) ==
  IF invoked = <<>> THEN 0
  ELSE (IF Head(invoked).op = op THEN 1 ELSE 0) + Count(Tail(invoked), op)

\* History: invocations issued per operation, Enter keys received while
\* Typing, thunk promises that rejected, whether some fetch came back
\* without a snapshot, how many invocations the backend failed, the snapshot
\* of the last fetch that brought one, and whether a snapshot without a
\* selection was applied to a goal cache that held one.
HistInit ==
  [issued |-> [op \in {"load", "fetch", "app_command", "cursor_action", "set_active_activity"} |-> 0],
   entersTyping |-> 0,
   unhandled |-> 0,
   fetchWithout |-> FALSE,
   faults |-> 0,
   applied |-> Null,
   dropped |-> FALSE]

Issued(h, invoked) ==
  [h EXCEPT !.issued = [op \in DOMAIN h.issued |-> h.issued[op] + Count(invoked, op)]]

Init ==
  /\ commandline = CommandlineEmpty
  /\ goal = GoalStateUnloaded
  /\ display = InitialDisplay
  /\ activity = InitialActivity
  /\ backend \in BackendInit
  /\ inflight = EmptyBag
  /\ started = FALSE
  /\ keyCount = 0
  /\ script = <<>>
  /\ hist = HistInit

SetStore(S) ==
  /\ commandline' = S.commandline
  /\ goal' = S.goal
  /\ display' = S.display
  /\ activity' = S.activity

\* App's mount effects: dispatch(loadCommand()) invokes load, and the
\* keypress listener is registered.
loadCommand ==
  /\ ~started
  /\ started' = TRUE
  /\ inflight' = inflight (+) Requests(<<Invoke("load", "")>>)
  /\ hist' = Issued(hist, <<Invoke("load", "")>>)
  /\ UNCHANGED <<commandline, goal, display, activity, backend, keyCount, script>>

\* A keypress: dispatch(keyboardEvent(event)).
keyboardEvent(key) ==
  /\ started
  /\ LET out == keyboardEventThunk(Store, key)
     IN /\ SetStore(out.store)
        /\ inflight' = inflight (+) Requests(out.invoked)
        /\ hist' = [Issued(hist, out.invoked) EXCEPT
                      !.entersTyping = IF key = "Enter" /\ commandline.type = "typing"
                                       THEN @ + 1 ELSE @]
  /\ keyCount' = keyCount + 1
  /\ UNCHANGED <<backend, started>>

\* The backend answers a pending request.
BackendRespond(r) ==
  /\ r.st = "pending"
  /\ \E a \in Responses(backend, r.op, r.arg) :
       /\ a.res.kind \in {"error", "null"} => hist.faults < MaxFaults
       /\ hist' = [hist EXCEPT !.faults = IF a.res.kind \in {"error", "null"} THEN @ + 1 ELSE @]
       /\ backend' = a.backend
       /\ inflight' = (inflight (-) SetToBag({r}))
                      (+) SetToBag({[r EXCEPT !.st = "responded", !.res = a.res]})
  /\ UNCHANGED <<commandline, goal, display, activity, started, keyCount, script>>

\* The answer reaches the frontend: the awaiting thunk runs to its end.
Resolve(r) ==
  /\ r.st = "responded"
  /\ LET out == Continuation(Store, r.op, r.res)
     IN /\ SetStore(out.store)
        /\ inflight' = (inflight (-) SetToBag({r})) (+) Requests(out.invoked)
        /\ hist' = [Issued(hist, out.invoked) EXCEPT
                      !.unhandled = IF out.thrown THEN @ + 1 ELSE @,
                      !.fetchWithout = @ \/ (r.op = "fetch" /\ r.res.kind # "state"),
                      !.applied = IF r.op = "fetch" /\ r.res.kind = "state" THEN r.res ELSE @,
                      !.dropped = @ \/ /\ r.op = "fetch" /\ r.res.kind = "state"
                                       /\ goal.type = "loaded"
                                       /\ goal.selectedGoalId # NoGoal
                                       /\ r.res.state.goalState.selectedGoalId = NoGoal]
  /\ UNCHANGED <<backend, started, keyCount, script>>

\* A key event arrives (as long as the bounds of the run allow one more).
KeyPress ==
  \E key \in Keys : /\ keyCount < MaxKeys
                    /\ BagCardinality(inflight) < MaxInFlight
                    /\ keyboardEvent(key)
                    /\ UNCHANGED script

Respond == \E r \in BagToSet(inflight) : BackendRespond(r)

Deliver == \E r \in BagToSet(inflight) : Resolve(r)

Next ==
  \/ loadCommand
  \/ KeyPress
  \/ Respond
  \/ Deliver

Spec == Init /\ [][Next]_vars

\* Keys that make the dispatcher invoke app_command and cursor_action: ":"
\* and Enter submit a command, j moves the cursor.
InvokingKeys == {":", "Enter", "j"}

InvokingKeyPress ==
  \E key \in InvokingKeys : /\ keyCount < MaxKeys
                            /\ BagCardinality(inflight) < MaxInFlight
                            /\ keyboardEvent(key)
                            /\ UNCHANGED script

FairNext ==
  \/ loadCommand
  \/ InvokingKeyPress
  \/ Respond
  \/ Deliver

\* The backend answers every invocation and every answer is delivered: an
\* invoke(...) promise that settles resumes the thunk awaiting it.
FairSpec == Init /\ [][FairNext]_vars /\ WF_vars(Respond) /\ WF_vars(Deliver)

\* The commandline slice alone: key events dispatched to its reducer, and
\* errors displayed, as wrapErrorHandler and loadCommandThunk dispatch them.
ReducerKey ==
  \E key \in Keys :
    /\ keyCount < MaxTyped
    /\ commandline' = handleKeyPressEvent(commandline, key)
    /\ keyCount' = keyCount + 1
    /\ UNCHANGED <<goal, display, activity, backend, inflight, started, script, hist>>

ReducerError ==
  \E e \in ErrorValues :
    \E payload \in {PayloadObject(JSONStringify(e)), PayloadString(e)} :
      /\ commandline' = displayError(payload)
      /\ UNCHANGED <<goal, display, activity, backend, inflight, started, keyCount,
                      script, hist>>

ReducerNext ==
  \/ ReducerKey
  \/ ReducerError

ReducerSpec == Init /\ [][ReducerNext]_vars

\* The keys that stand for one printable character.
PrintableKeys == {key \in Keys : Len(key) = 1}

RECURSIVE Texts(_)
\* The texts of n printable keys, the first of them ":".
Texts(n) ==
  IF n = 1 THEN {<<":">>}
  ELSE {Append(t, key) : t \in Texts(n - 1), key \in PrintableKeys}

\* n times Backspace.
Backspaces(n) == [i \in 1..n |-> "Backspace"]

\* A text of n keys typed and then erased by n Backspace keys.
RoundTrips == UNION {{t \o Backspaces(n) : t \in Texts(n)} : n \in 1..MaxTyped}

RoundTripInit ==
  /\ commandline = CommandlineEmpty
  /\ goal = GoalStateUnloaded
  /\ display = InitialDisplay
  /\ activity = InitialActivity
  /\ backend \in BackendInit
  /\ inflight = EmptyBag
  /\ started = FALSE
  /\ keyCount = 0
  /\ script \in RoundTrips
  /\ hist = HistInit

\* The next key of the script arrives. The text is begun on an Empty
\* commandline, once no invocation is outstanding.
ScriptedKey ==
  /\ script # <<>>
  /\ keyCount = 0 => inflight = EmptyBag /\ commandline = CommandlineEmpty
  /\ keyboardEvent(Head(script))
  /\ script' = Tail(script)

RoundTripNext ==
  \/ loadCommand
  \/ ScriptedKey
  \/ Respond
  \/ Deliver

RoundTripSpec == RoundTripInit /\ [][RoundTripNext]_vars

\* ------------------------------------------------------------ properties
Mutating == {"app_command", "cursor_action", "set_active_activity"}
CursorActions == {"up", "down", "in", "out"}

\* This step is a key event.
KeyStep == keyCount' = keyCount + 1

\* The invocations this step issues.
IssuedNow == inflight' (-) inflight
IssuedNowOf(op) == hist'.issued[op] - hist.issued[op]

\* This step delivers the answer r to its thunk.
Delivered(r) == r.st = "responded" /\ CopiesIn(r, inflight') < CopiesIn(r, inflight)

\* The three caches hold the snapshot fs.
CachesHold(fs) ==
  /\ goal = load(fs.goalState)
  /\ display = fs.goalState.config.display
  /\ activity = fs.activeActivity

Quiescent == started /\ inflight = EmptyBag

\* C1: Enter while Typing(c) invokes app_command with c less its leading ":",
\* and no app_command argument begins with ":".
C1_MarkerStripped ==
  [][/\ (keyboardEvent("Enter") /\ commandline.type = "typing")
          => BagIn(Request(Invoke("app_command", Tail(commandline.content))), IssuedNow)
     /\ \A r \in BagToSet(inflight') :
          r.op = "app_command" => (r.arg = "" \/ Head(r.arg) # ":")]_vars

\* C2: a key event issues at most one mutating backend invocation.
C2_AtMostOneMutation ==
  [][KeyStep =>
       IssuedNowOf("app_command") + IssuedNowOf("cursor_action")
         + IssuedNowOf("set_active_activity") <= 1]_vars

\* C3: outside Typing, h, j, k, l issue cursor_action out, down, up, in, and
\* no other key issues a cursor_action.
C3_NavigationKeys ==
  [][\A key \in Keys :
       (keyboardEvent(key) /\ commandline.type # "typing") =>
         \A a \in CursorActions :
           CopiesIn(Request(Invoke("cursor_action", a)), IssuedNow)
             = IF <<key, a>> \in {<<"h", "out">>, <<"j", "down">>, <<"k", "up">>, <<"l", "in">>}
               THEN 1 ELSE 0]_vars

\* C4: the app_command invocations issued are as many as the Enter keys
\* received while Typing.
C4_SubmittedOnce == hist.issued["app_command"] = hist.entersTyping

C4_Witness ==
  /\ hist.entersTyping = 1
  /\ hist.issued["app_command"] = 1
  /\ Quiescent
  /\ keyCount = MaxKeys

\* C5: once nothing is in flight and every fetch brought a snapshot, the
\* caches hold the backend's state.
C5_FinalStateFresh ==
  (Quiescent /\ hist.issued["fetch"] > 0 /\ ~hist.fetchWithout) => CachesHold(backend)

\* C6: a rejected app_command, cursor_action or set_active_activity issues
\* no invocation, leaves the three caches alone, and its thunk's promise
\* does not reject.
C6_RejectionContained ==
  [][\A r \in BagToSet(inflight) :
       (Delivered(r) /\ r.op \in Mutating /\ r.res.kind = "error") =>
         /\ inflight' = inflight (-) SetToBag({r})
         /\ hist'.issued = hist.issued
         /\ UNCHANGED <<goal, display, activity>>
         /\ hist'.unhandled = hist.unhandled]_vars

\* A cursor_action was rejected: the startup fetch brought the snapshot, no
\* other fetch was issued, and the error shown is a serialized one.
C6_Witness ==
  /\ Quiescent
  /\ hist.issued["cursor_action"] = 1
  /\ hist.issued["app_command"] = 0
  /\ hist.issued["set_active_activity"] = 0
  /\ hist.issued["fetch"] = 1
  /\ goal.type = "loaded"
  /\ commandline = CommandlineError(JSONStringify("unknown command"))

\* C7: app_command rejected with "unknown command" leaves the commandline
\* in Error with exactly that text.
C7_ErrorTextExact ==
  [][\A r \in BagToSet(inflight) :
       (Delivered(r) /\ r.op = "app_command" /\ r.res = Rejected("unknown command"))
         => commandline' = CommandlineError("unknown command")]_vars

\* C8: a rejection of any of the five operations leaves the commandline in
\* Error with the serialization of the error value.
C8_ErrorSerialized ==
  [][\A r \in BagToSet(inflight) :
       (Delivered(r) /\ r.res.kind = "error")
         => commandline' = CommandlineError(JSONStringify(r.res.e))]_vars

\* C9: a successful app_command or cursor_action issues a fetch; every fetch
\* in flight is answered and delivered; and a fetch that brings a snapshot
\* leaves the three caches holding it.
FetchInFlight == \E r \in BagToSet(inflight) : r.op = "fetch"

C9_RefreshFollows ==
  /\ [][\A r \in BagToSet(inflight) :
          (Delivered(r) /\ r.op \in {"app_command", "cursor_action"} /\ r.res.kind # "error")
            => IssuedNowOf("fetch") >= 1]_vars
  /\ [][\A r \in BagToSet(inflight) :
          (Delivered(r) /\ r.op = "fetch" /\ r.res.kind = "state")
            => CachesHold(r.res.state)']_vars
  /\ (FetchInFlight ~> ~FetchInFlight)

\* A cursor_action moved the selection and the fetches after it brought
\* the new selection into the Goal Tree Cache.
C9_Witness ==
  /\ Quiescent
  /\ hist.issued["cursor_action"] = 1
  /\ hist.faults = 0
  /\ backend.goalState.selectedGoalId = 2
  /\ goal.type = "loaded"
  /\ goal.selectedGoalId = 2

\* C10: the three caches hold the startup defaults until a fetch brings a
\* snapshot, and from then on all three hold the snapshot applied last.
C10_SameGeneration ==
  IF hist.applied.kind = "state"
  THEN CachesHold(hist.applied.state)
  ELSE goal = GoalStateUnloaded /\ display = InitialDisplay /\ activity = InitialActivity

\* A snapshot has been applied while a fetch with another snapshot is on
\* its way.
C10_Witness ==
  /\ hist.applied.kind = "state"
  /\ \E r \in BagToSet(inflight) :
       /\ r.op = "fetch" /\ r.st = "responded" /\ r.res.kind = "state"
       /\ r.res.state.activeActivity # hist.applied.state.activeActivity
       /\ r.res.state.goalState.selectedGoalId # hist.applied.state.goalState.selectedGoalId

\* C11: an Error commandline is left only by the keys ":" (to Typing(":"))
\* and Escape (to Empty): every other key and every answer that is not a
\* rejection leave it as it is, and a rejection leaves an Error.
C11_ErrorSticks ==
  [][commandline.type = "error" =>
       /\ KeyStep =>
            \A key \in Keys :
              keyboardEvent(key) =>
                commandline' = (IF key = ":" THEN CommandlineTyping(":")
                                ELSE IF key = "Escape" THEN CommandlineEmpty
                                ELSE commandline)
       /\ ~KeyStep =>
            \/ commandline' = commandline
            \/ /\ commandline'.type = "error"
               /\ \E r \in BagToSet(inflight) :
                    Delivered(r) /\ r.res.kind = "error"]_vars

\* load was rejected, and the startup fetch issued after it (the only fetch)
\* has brought its snapshot: the error is still displayed.
C11_Witness ==
  /\ commandline = CommandlineError(Undefined)
  /\ hist.issued["fetch"] = 1
  /\ goal.type = "loaded"

\* The transition table of the commandline state machine.
TableNext(state, key) ==
  CASE state.type \in {"empty", "error"} /\ key = ":" -> CommandlineTyping(":")
    [] state.type \in {"empty", "error"} /\ key = "Escape" -> CommandlineEmpty
    [] state.type \in {"empty", "error"} /\ key \notin {":", "Escape"} -> state
    [] state.type = "typing" /\ key \in {"Escape", "Enter"} -> CommandlineEmpty
    [] state.type = "typing" /\ key \in {"Backspace", "Delete"} ->
         IF Len(state.content) > 1
         THEN CommandlineTyping(SubSeq(state.content, 1, Len(state.content) - 1))
         ELSE CommandlineEmpty
    [] state.type = "typing" /\ key \notin {"Escape", "Enter", "Backspace", "Delete"} ->
         CommandlineTyping(state.content \o key)

\* C12: for every key, the reducer takes the commandline to the state the
\* transition table gives.
C12_ReducerIsTable ==
  \A key \in Keys : handleKeyPressEvent(commandline, key) = TableNext(commandline, key)

\* Three keys have been reduced and left Typing(":x").
C12_Witness == keyCount = 3 /\ commandline = CommandlineTyping(":x")

\* C13: a Typing commandline has a content of at least one character that
\* begins with ":".
C13_TypingHasMarker ==
  commandline.type = "typing" =>
    Len(commandline.content) >= 1 /\ Head(commandline.content) = ":"

\* Three keys have been reduced and left Typing(":").
C13_Witness == keyCount = 3 /\ commandline = CommandlineTyping(":")

\* C18: Empty is rendered as the empty string, Typing(c) as c followed by
\* "|" (Typing(":") as ":|"), Error(m) as m.
C18_Rendering ==
  /\ commandline.type = "empty" => formatCommandline(commandline) = ""
  /\ commandline.type = "typing" =>
       formatCommandline(commandline) = commandline.content \o "|"
  /\ commandline = CommandlineTyping(":") => formatCommandline(commandline) = ":|"
  /\ commandline.type = "error" => formatCommandline(commandline) = commandline.error

\* The key ":" has taken Empty to Typing(":"), rendered as ":|".
C18_Witness ==
  /\ keyCount = 1
  /\ commandline = CommandlineTyping(":")
  /\ formatCommandline(commandline) = ":|"

\* C14: from Empty, N printable keys of which the first is ":" followed by
\* N Backspace keys leave the commandline Empty, and none of the 2N keys
\* makes the dispatcher invoke the backend.
C14_RoundTrip ==
  keyCount > 0 =>
    /\ inflight = EmptyBag
    /\ hist.issued["app_command"] = 0
    /\ hist.issued["cursor_action"] = 0
    /\ hist.issued["set_active_activity"] = 0
    /\ hist.issued["fetch"] = 1
    /\ script = <<>> => commandline = CommandlineEmpty

\* A text of three keys has been typed and erased.
C14_Witness ==
  /\ script = <<>>
  /\ keyCount = 6
  /\ commandline = CommandlineEmpty

\* C15: when a fetch that resolved with null is processed, the goal cache,
\* the display cache, the active activity and the commandline state are left
\* exactly as they were.
C15_AbsentFetchIgnored ==
  [][\A r \in BagToSet(inflight) :
       (Delivered(r) /\ r.op = "fetch" /\ r.res.kind = "null")
         => UNCHANGED <<commandline, goal, display, activity>>]_vars

\* After one key, a fetch has been processed that brought no snapshot, and
\* no error is shown: its result was null. Another fetch loaded the goals.
C15_Witness ==
  /\ Quiescent
  /\ hist.fetchWithout
  /\ keyCount = 1
  /\ commandline = CommandlineEmpty
  /\ goal.type = "loaded"

\* The ids of the goals of a goal cache.
GoalIds(g) == {g.populatedGoals[i] : i \in 1..Len(g.populatedGoals)}

\* C16: a fetch that brought a snapshot leaves in the goal cache exactly the
\* snapshot's populatedGoals, selectedGoalId and focusedGoals, so that the
\* cached selection and focus always reference goals of the cache.
C16_CacheIsSnapshot ==
  /\ [][\A r \in BagToSet(inflight) :
          (Delivered(r) /\ r.op = "fetch" /\ r.res.kind = "state") =>
            goal' = [type |-> "loaded",
                     populatedGoals |-> r.res.state.goalState.populatedGoals,
                     selectedGoalId |-> r.res.state.goalState.selectedGoalId,
                     focusedGoals |-> r.res.state.goalState.focusedGoals]]_vars
  /\ [](goal.type = "loaded" =>
          /\ goal.selectedGoalId = NoGoal \/ goal.selectedGoalId \in GoalIds(goal)
          /\ goal.focusedGoals \subseteq GoalIds(goal))

\* The goal cache held a selection and now holds the snapshot taken after
\* the goals were deleted: no goals, no selection.
C16_Witness ==
  /\ hist.dropped
  /\ goal.type = "loaded"
  /\ goal.populatedGoals = <<>>
  /\ goal.selectedGoalId = NoGoal

\* The three caches of a store.
Caches(S) == <<S.goal, S.display, S.activity>>

\* C17: applying fetchState twice with the same snapshot leaves the goal
\* cache, the display cache and the active activity as applying it once
\* does; a run that receives the snapshot it applied last changes no cache.
C17_FetchIdempotent ==
  /\ [](\A r \in BagToSet(inflight) :
          (r.st = "responded" /\ r.op = "fetch" /\ r.res.kind = "state") =>
            LET once == Continuation(Store, "fetch", r.res).store
                twice == Continuation(once, "fetch", r.res).store
            IN Caches(twice) = Caches(once))
  /\ [][\A r \in BagToSet(inflight) :
          (Delivered(r) /\ r.op = "fetch" /\ r.res = hist.applied) =>
            UNCHANGED <<goal, display, activity>>]_vars

\* The two fetches that follow one cursor_action have both brought the
\* snapshot with the selection moved to the second goal, after the startup
\* fetch: the second of them was applied to caches that held it already.
C17_Witness ==
  /\ Quiescent
  /\ keyCount = 1
  /\ hist.issued["cursor_action"] = 1
  /\ hist.issued["fetch"] = 3
  /\ hist.faults = 0
  /\ goal.type = "loaded"
  /\ goal.selectedGoalId = 2

\* C19: set_active_activity is invoked by the key q received while the
\* commandline is not Typing and the active activity is Help, once and with
\* the argument Goals, and by nothing else: not by q while Goals is active
\* or while Typing, not by another key, not by a completion.
C19_LeavesHelpOnly ==
  [][/\ KeyStep =>
          \A key \in Keys :
            keyboardEvent(key) =>
              IssuedNowOf("set_active_activity") =
                (IF key = "q" /\ commandline.type # "typing" /\ activity = "Help"
                 THEN 1 ELSE 0)
     /\ ~KeyStep => IssuedNowOf("set_active_activity") = 0
     /\ IssuedNowOf("set_active_activity") > 0 =>
          \A r \in BagToSet(IssuedNow) :
            r.op = "set_active_activity" => r.arg = "Goals"]_vars

\* q was pressed in the Help activity; the invocation it made has set the
\* backend's activity to Goals and the refresh has brought it to the store.
C19_Witness ==
  /\ Quiescent
  /\ hist.issued["set_active_activity"] = 1
  /\ hist.faults = 0
  /\ backend.activeActivity = "Goals"
  /\ activity = "Goals"

\* C20: a key received while the commandline is Typing invokes neither
\* cursor_action nor set_active_activity; h, j, k, l and q are appended to
\* the content; app_command, on Enter, is the only invocation made.
C20_TypingKeysAreText ==
  [][(KeyStep /\ commandline.type = "typing") =>
       \A key \in Keys :
         keyboardEvent(key) =>
         /\ IssuedNowOf("cursor_action") = 0
         /\ IssuedNowOf("set_active_activity") = 0
         /\ IssuedNowOf("fetch") = 0
         /\ IssuedNowOf("load") = 0
         /\ IssuedNowOf("app_command") = (IF key = "Enter" THEN 1 ELSE 0)
         /\ key \in {"h", "j", "k", "l", "q"} =>
              commandline' = CommandlineTyping(commandline.content \o key)]_vars

\* The key j was received while Typing and went into the content: no
\* cursor_action has been invoked.
C20_Witness ==
  /\ keyCount = 2
  /\ commandline = CommandlineTyping(":j")
  /\ hist.issued["cursor_action"] = 0

\* C21: the goal cache, the display cache and the active activity change
\* only in the step that applies a fetch result that is a snapshot: no key
\* event and no completion of load, app_command, cursor_action or
\* set_active_activity writes them.
C21_OnlyFetchWrites ==
  [][<<goal, display, activity>>' # <<goal, display, activity>> =>
       \E r \in BagToSet(inflight) :
         Delivered(r) /\ r.op = "fetch" /\ r.res.kind = "state"]_vars

\* q was pressed in Help and the backend has switched to Goals, while the
\* store still holds Help: no fetch has reported the change yet.
C21_Witness ==
  /\ hist.issued["set_active_activity"] = 1
  /\ backend.activeActivity = "Goals"
  /\ activity = "Help"

\* C22: the completion of a successful cursor_action issues exactly one
\* fetch.
C22_OneRefresh ==
  [][\A r \in BagToSet(inflight) :
       (Delivered(r) /\ r.op = "cursor_action" /\ r.res.kind = "unit")
         => IssuedNowOf("fetch") = 1]_vars

\* C23: while the commandline is Typing, a step that is not a key event
\* (the backend answering, an answer reaching its thunk) leaves the
\* commandline as it is.
C23_TypingSurvivesCompletions ==
  [][(commandline.type = "typing" /\ ~KeyStep) => commandline' = commandline]_vars

\* C24: load is invoked once, when the application starts; the step in
\* which its answer, success or rejection, reaches loadCommandThunk issues
\* one fetch, and as long as load is in flight and no key has invoked a
\* mutating operation no fetch has been issued.
C24_LoadThenFetch ==
  /\ [](hist.issued["load"] = IF started THEN 1 ELSE 0)
  /\ []((/\ \E r \in BagToSet(inflight) : r.op = "load"
         /\ \A op \in Mutating : hist.issued[op] = 0)
          => hist.issued["fetch"] = 0)
  /\ [][\A r \in BagToSet(inflight) :
          (Delivered(r) /\ r.op = "load") => IssuedNowOf("fetch") = 1]_vars

\* load was rejected, which is displayed, and the one fetch issued after it
\* has been answered and processed, before any key.
C24_Witness ==
  /\ Quiescent
  /\ keyCount = 0
  /\ hist.issued["load"] = 1
  /\ hist.issued["fetch"] = 1
  /\ hist.faults = 1
  /\ commandline = CommandlineError(Undefined)

\* The invocations issued so far.
TotalIssued ==
  hist.issued["load"] + hist.issued["fetch"] + hist.issued["app_command"]
    + hist.issued["cursor_action"] + hist.issued["set_active_activity"]

\* C25: when every invocation is answered and every answer delivered, the
\* started application comes to a state with nothing in flight. The
\* startup makes two invocations and a key event at most five, its
\* refreshes included; a fetch that failed (or brought nothing) issues
\* nothing; and a key event can be received in every state once started.
C25_Quiesces ==
  /\ (started ~> Quiescent)
  /\ [](TotalIssued <= 2 + 5 * keyCount)
  /\ [][\A r \in BagToSet(inflight) :
          (Delivered(r) /\ r.op = "fetch" /\ r.res.kind # "state")
            => IssuedNow = EmptyBag]_vars
  /\ [](started => \A key \in Keys : ENABLED keyboardEvent(key))

\* Two keys have been handled, one of them a cursor_action with its two
\* refreshes; a fetch was rejected and the rejection is displayed, and
\* nothing is in flight any more.
C25_Witness ==
  /\ Quiescent
  /\ keyCount = 2
  /\ hist.issued["cursor_action"] = 1
  /\ hist.issued["fetch"] = 3
  /\ hist.faults = 1
  /\ hist.fetchWithout
  /\ commandline.type = "error"

=============================================================================
